---- MODULE Spec2Model ----
(***************************************************************************)
(* Model of the schedule optimizer: dataParser.py (ScheduleOptimizer) and  *)
(* app.py (the /optimize handler).                                         *)
(*                                                                         *)
(* Python strings are modelled as sequences of one-character strings, so   *)
(* that splitting, replacing, parsing and formatting are computed and not  *)
(* assumed.                                                                *)
(***************************************************************************)
EXTENDS Integers, Sequences, FiniteSets, TLC

(***************************************************************************)
(* Bounds of the model.                                                    *)
(***************************************************************************)
\* largest number of course ids one sequential request selects
MaxSelected == 2
\* largest length of a day token drawn for the decoding specification
MaxTokenLen == 3

(***************************************************************************)
(* State.  Requests are the /optimize requests in flight; each has its own *)
(* locals, and all share the file selected_courses.json.                   *)
(***************************************************************************)
VARIABLES
    pc,                \* position of each request in optimize_schedule
    selected_courses,  \* local selected_courses of each request
    file,              \* content of selected_courses.json
    self_courses,      \* optimizer.courses of each request
    problem,           \* optimizer.problem of each request
    solution,          \* local solution of each request
    response,          \* what each request answers
    day_token,         \* a day token handed to the decoding
    decoded_days,      \* the days decoded from it
    decoded            \* whether the decoding has run

vars == <<pc, selected_courses, file, self_courses, problem, solution, response,
          day_token, decoded_days, decoded>>

(***************************************************************************)
(* String primitives (str methods used by the source).                     *)
(***************************************************************************)
DigitChars == <<"0", "1", "2", "3", "4", "5", "6", "7", "8", "9">>

IsDigit(c) == \E i \in 1..10 : DigitChars[i] = c

DigitVal(c) == (CHOOSE i \in 1..10 : DigitChars[i] = c) - 1

\* sub in s, for sequences of characters
Contains(s, sub) ==
    \E i \in 1..(Len(s) - Len(sub) + 1) : SubSeq(s, i, i + Len(sub) - 1) = sub

\* s.split(sep) for a one-character separator: the list of the pieces
RECURSIVE Split(_, _)
Split(s, sep) ==
    IF \A i \in 1..Len(s) : s[i] # sep
    THEN <<s>>
    ELSE LET k == CHOOSE i \in 1..Len(s) :
                      s[i] = sep /\ \A j \in 1..(i - 1) : s[j] # sep
         IN  <<SubSeq(s, 1, k - 1)>> \o Split(SubSeq(s, k + 1, Len(s)), sep)

\* s.strip()
RECURSIVE Strip(_)
Strip(s) ==
    IF s = <<>> THEN s
    ELSE IF s[1] = " " THEN Strip(Tail(s))
    ELSE IF s[Len(s)] = " " THEN Strip(SubSeq(s, 1, Len(s) - 1))
    ELSE s

\* s.replace(old, new) for a one-character old and a string new
RECURSIVE Replace(_, _, _)
Replace(s, old, new) ==
    IF s = <<>> THEN <<>>
    ELSE (IF s[1] = old THEN new ELSE <<s[1]>>) \o Replace(Tail(s), old, new)

Upper(c) == IF c = "a" THEN "A" ELSE IF c = "p" THEN "P" ELSE IF c = "m" THEN "M" ELSE c

(***************************************************************************)
(* datetime.strptime / strftime, for the two formats the source uses.      *)
(* A parsed time is its number of minutes since midnight; NoTime stands    *)
(* for the ValueError strptime raises.                                     *)
(***************************************************************************)
NoTime == -1

\* the digits of s[from..to] as a number
RECURSIVE Number(_)
Number(s) ==
    IF s = <<>> THEN 0 ELSE 10 * Number(SubSeq(s, 1, Len(s) - 1)) + DigitVal(s[Len(s)])

AllDigits(s) == \A i \in 1..Len(s) : IsDigit(s[i])

\* %M : one or two digits, 0..59
MinuteField(s) ==
    /\ Len(s) \in {1, 2}
    /\ AllDigits(s)
    /\ Number(s) <= 59

\* %I : one or two digits, 1..12
Hour12Field(s) ==
    /\ Len(s) \in {1, 2}
    /\ AllDigits(s)
    /\ Number(s) \in 1..12

\* %H : one or two digits, 0..23
Hour24Field(s) ==
    /\ Len(s) \in {1, 2}
    /\ AllDigits(s)
    /\ Number(s) <= 23

\* %p : AM or PM, in either case
MeridiemField(s) ==
    /\ Len(s) = 2
    /\ Upper(s[1]) \in {"A", "P"}
    /\ Upper(s[2]) = "M"

\* datetime.strptime(s, "%I:%M%p"), as minutes since midnight
Strptime12(s) ==
    LET colons == {i \in 1..Len(s) : s[i] = ":"}
    IN  IF Cardinality(colons) # 1 \/ Len(s) < 3 THEN NoTime
        ELSE LET k  == CHOOSE i \in colons : TRUE
                 hh == SubSeq(s, 1, k - 1)
                 mm == SubSeq(s, k + 1, Len(s) - 2)
                 pp == SubSeq(s, Len(s) - 1, Len(s))
             IN  IF Hour12Field(hh) /\ MinuteField(mm) /\ MeridiemField(pp)
                 THEN LET h == Number(hh) % 12
                      IN  (IF Upper(pp[1]) = "P" THEN h + 12 ELSE h) * 60 + Number(mm)
                 ELSE NoTime

\* datetime.strptime(s, "%H:%M"), as minutes since midnight
Strptime24(s) ==
    LET colons == {i \in 1..Len(s) : s[i] = ":"}
    IN  IF Cardinality(colons) # 1 THEN NoTime
        ELSE LET k  == CHOOSE i \in colons : TRUE
                 hh == SubSeq(s, 1, k - 1)
                 mm == SubSeq(s, k + 1, Len(s))
             IN  IF Hour24Field(hh) /\ MinuteField(mm)
                 THEN Number(hh) * 60 + Number(mm)
                 ELSE NoTime

\* t.strftime("%H:%M") for a time of t minutes since midnight
Strftime24(t) ==
    LET h == t \div 60
        m == t % 60
    IN  <<DigitChars[(h \div 10) + 1], DigitChars[(h % 10) + 1], ":",
          DigitChars[(m \div 10) + 1], DigitChars[(m % 10) + 1]>>

(***************************************************************************)
(* ScheduleOptimizer: days, time slots, _parse_time, day decoding.         *)
(***************************************************************************)
days == <<"Monday", "Tuesday", "Wednesday", "Thursday", "Friday">>

\* first and last slot of the day in minutes (8:00 and 21:00), and the step
SlotStart == 480
SlotEnd == 1260
SlotDelta == 30

RECURSIVE SlotsFrom(_)
SlotsFrom(current) ==
    IF current <= SlotEnd
    THEN <<Strftime24(current)>> \o SlotsFrom(current + SlotDelta)
    ELSE <<>>

_generate_time_slots == SlotsFrom(SlotStart)

time_slots == _generate_time_slots

\* outcome of _parse_time: a window, no window (None, None), or the
\* ValueError of the tuple unpacking when split yields more than two pieces
NoWindow == [kind |-> "none", start |-> <<>>, end |-> <<>>]
ParseRaised == [kind |-> "raised", start |-> <<>>, end |-> <<>>]

_parse_time(time_str) ==
    IF Contains(time_str, <<"-">>)
    THEN LET parts == Split(time_str, "-")
         IN  IF Len(parts) # 2 THEN ParseRaised
             ELSE LET start == Replace(Replace(Strip(parts[1]), "a", <<"A", "M">>),
                                       "p", <<"P", "M">>)
                      end   == Replace(Replace(Strip(parts[2]), "a", <<"A", "M">>),
                                       "p", <<"P", "M">>)
                      start_time == Strptime12(start)
                      end_time   == Strptime12(end)
                  IN  IF start_time = NoTime \/ end_time = NoTime
                      THEN NoWindow
                      ELSE [kind |-> "window",
                            start |-> Strftime24(start_time),
                            end |-> Strftime24(end_time)]
    ELSE NoWindow

\* the days one token adds to valid_days (the body of the inner loop of
\* add_day_constraints)
DecodeToken(day) ==
    (IF Contains(day, <<"M">>) THEN {"Monday"} ELSE {})
    \cup (IF Contains(day, <<"T">>) /\ ~Contains(day, <<"H">>) THEN {"Tuesday"} ELSE {})
    \cup (IF Contains(day, <<"W">>) THEN {"Wednesday"} ELSE {})
    \cup (IF Contains(day, <<"T", "H">>) THEN {"Thursday"} ELSE {})
    \cup (IF Contains(day, <<"F">>) THEN {"Friday"} ELSE {})

\* valid_days after the inner loop over the tokens of one course
RECURSIVE DecodeDays(_)
DecodeDays(meeting_days) ==
    IF meeting_days = <<>> THEN {}
    ELSE DecodeToken(meeting_days[1]) \cup DecodeDays(Tail(meeting_days))

(***************************************************************************)
(* The course catalog (data.json, loaded into all_courses when the app     *)
(* starts).  Every course record has the fields the source reads.          *)
(***************************************************************************)
TBA == <<"T", "B", "A">>

Course(id, meeting_days, meeting_times) ==
    [id |-> id, course_dept |-> "CS", course_code |-> 100 + id,
     course_title |-> "T", meeting_days |-> meeting_days,
     meeting_times |-> meeting_times]

all_courses ==
    << \* 1, 2: Monday, the single slot 09:00
       Course(1, <<<<"M">>>>, <<<<"9", ":", "0", "0", "a", "-", "9", ":", "0", "0", "a">>>>),
       Course(2, <<<<"M">>>>, <<<<"9", ":", "0", "0", "a", "-", "9", ":", "0", "0", "a">>>>),
       \* 3: Tuesday and Thursday
       Course(3, <<<<"T", "T", "H">>>>, <<<<"8", ":", "0", "0", "a", "-", "9", ":", "1", "5", "a">>>>),
       \* 4: two windows that share the slot 09:30 only
       Course(4, <<<<"M", "W", "F">>>>,
              <<<<"9", ":", "0", "0", "a", "-", "9", ":", "3", "0", "a">>, <<"9", ":", "3", "0", "a", " ", "-", " ", "1", "0", ":", "4", "5", "a">>>>),
       \* 5, 6: a TBA meeting time, alone and next to a real range
       Course(5, <<<<"M">>>>, <<TBA>>),
       Course(6, <<<<"W">>>>, <<<<"1", ":", "0", "0", "p", "-", "2", ":", "0", "0", "p">>, TBA>>),
       \* 7: an entry without a hyphen next to a well-formed afternoon range
       Course(7, <<<<"W">>>>, <<<<"n", "o", "o", "n">>, <<"1", "2", ":", "3", "0", "p", "-", "1", ":", "0", "0", "p">>>>),
       \* 8: an unparsable half ("am" becomes "AMm")
       Course(8, <<<<"F">>>>, <<<<"9", ":", "0", "0", "a", "m", "-", "1", "0", ":", "0", "0", "a", "m">>>>),
       \* 9: more than one hyphen
       Course(9, <<<<"F">>>>, <<<<"9", ":", "0", "0", "a", "-", "1", "0", ":", "0", "0", "a", "-", "1", "1", ":", "0", "0", "a">>>>),
       \* 10: a day token that names no day
       Course(10, <<<<"R">>>>, <<<<"8", ":", "0", "0", "a", "-", "8", ":", "3", "0", "a">>>>),
       \* 11: TBA meeting days with a real time range
       Course(11, <<TBA>>, <<<<"8", ":", "0", "0", "p", "-", "9", ":", "0", "0", "p">>>>) >>

CourseIds == {all_courses[i].id : i \in 1..Len(all_courses)}

\* x in lst, for a Python list
InList(x, lst) == \E i \in 1..Len(lst) : lst[i] = x

(***************************************************************************)
(* The constraint store (constraint.Problem) and the model builder.        *)
(***************************************************************************)
\* a request that has constructed no optimizer holds no store
NoProblem == [variables |-> <<>>, constraints |-> <<>>, cell |-> {}, raised |-> FALSE]

\* variant: one store, created once and shared by every optimizer
ProblemShared == problem[1]

\* Problem(): no variable, no constraint.  cell is the content of the
\* closure cell valid_days that the day lambdas of one call of
\* add_day_constraints share.
Problem == [variables |-> <<>>, constraints |-> <<>>, cell |-> {}, raised |-> FALSE]

\* variant: the loaded list is returned unfiltered
_load_data_unfiltered(data) == data

\* [course for course in data if 'TBA' not in course['meeting_times']]
_load_data(data) ==
    SelectSeq(data, LAMBDA course : ~InList(TBA, course.meeting_times))

\* [(day, time) for day in self.days for time in self.time_slots]
FullDomain ==
    [k \in 1..(Len(days) * Len(time_slots)) |->
        <<days[((k - 1) \div Len(time_slots)) + 1],
          time_slots[((k - 1) % Len(time_slots)) + 1]>>]

\* addVariable raises ValueError for a variable already in the store
RECURSIVE setup_variables(_, _)
setup_variables(p, courses) ==
    IF courses = <<>> \/ p.raised THEN p
    ELSE LET course_id == courses[1].id
         IN  IF course_id \in DOMAIN p.variables
             THEN [p EXCEPT !.raised = TRUE]
             ELSE setup_variables(
                    [p EXCEPT !.variables = (course_id :> FullDomain) @@ @],
                    Tail(courses))

\* variant: the inner loop starts at i + 2
PairsInOrderSkipNext(n) ==
    LET all == {<<i, j>> \in (1..n) \X (1..n) : i + 1 < j}
        Before(a, b) == a[1] < b[1] \/ (a[1] = b[1] /\ a[2] < b[2])
    IN  [k \in 1..Cardinality(all) |->
            CHOOSE a \in all : Cardinality({b \in all : Before(b, a)}) = k - 1]

\* the pairs (i, j), i < j, in the order of the two loops
PairsInOrder(n) ==
    LET all == {<<i, j>> \in (1..n) \X (1..n) : i < j}
        Before(a, b) == a[1] < b[1] \/ (a[1] = b[1] /\ a[2] < b[2])
    IN  [k \in 1..Cardinality(all) |->
            CHOOSE a \in all : Cardinality({b \in all : Before(b, a)}) = k - 1]

add_time_constraints(p, courses) ==
    IF p.raised THEN p
    ELSE LET pairs == PairsInOrder(Len(courses))
             new == [k \in 1..Len(pairs) |->
                       [kind |-> "distinct",
                        vars |-> <<courses[pairs[k][1]].id, courses[pairs[k][2]].id>>,
                        s |-> <<>>, e |-> <<>>]]
         IN  [p EXCEPT !.constraints = @ \o new]

\* the inner loop of add_duration_constraints over one course's entries
RECURSIVE DurationOfCourse(_, _, _)
DurationOfCourse(p, course_id, meeting_times) ==
    IF meeting_times = <<>> \/ p.raised THEN p
    ELSE LET meeting_time == meeting_times[1]
             w == _parse_time(meeting_time)
             q == IF meeting_time = TBA THEN p
                  ELSE IF w.kind = "raised" THEN [p EXCEPT !.raised = TRUE]
                  ELSE IF w.kind = "window"
                  THEN [p EXCEPT !.constraints =
                           Append(@, [kind |-> "window", vars |-> <<course_id>>,
                                      s |-> w.start, e |-> w.end])]
                  ELSE p
         IN  DurationOfCourse(q, course_id, Tail(meeting_times))

RECURSIVE add_duration_constraints(_, _)
add_duration_constraints(p, courses) ==
    IF courses = <<>> \/ p.raised THEN p
    ELSE add_duration_constraints(
            DurationOfCourse(p, courses[1].id, courses[1].meeting_times),
            Tail(courses))

\* The lambda of add_day_constraints reads valid_days when it is called,
\* that is during getSolution: every day constraint sees the set the last
\* assignment to valid_days left in the cell.
RECURSIVE add_day_constraints(_, _)
add_day_constraints(p, courses) ==
    IF courses = <<>> \/ p.raised THEN p
    ELSE LET course == courses[1]
             valid_days == DecodeDays(course.meeting_days)
             q == IF InList(TBA, course.meeting_days) THEN p
                  ELSE IF valid_days # {}
                  THEN [p EXCEPT !.cell = valid_days,
                                 !.constraints =
                                    Append(@, [kind |-> "day", vars |-> <<course.id>>,
                                               s |-> <<>>, e |-> <<>>])]
                  ELSE [p EXCEPT !.cell = valid_days]
         IN  add_day_constraints(q, Tail(courses))

(***************************************************************************)
(* Problem.getSolution with the default BacktrackingSolver (forward        *)
(* checking on): unary constraints prune the domains first, then a         *)
(* depth-first search binds one variable at a time.                        *)
(***************************************************************************)
\* variant: the window lambda compares with the start only
FuncNoUpperBound(c, args, cell) ==
    IF c.kind = "distinct"
    THEN args[1][1] # args[2][1] \/ args[1][2] # args[2][2]
    ELSE IF c.kind = "window"
    THEN Strptime24(args[1][2]) >= Strptime24(c.s)
    ELSE args[1][1] \in cell

\* the constraint functions (the three lambdas), args in the order of vars
Func(c, args, cell) ==
    IF c.kind = "distinct"
    THEN args[1][1] # args[2][1] \/ args[1][2] # args[2][2]
    ELSE IF c.kind = "window"
    THEN /\ Strptime24(args[1][2]) >= Strptime24(c.s)
         /\ Strptime24(args[1][2]) <= Strptime24(c.e)
    ELSE args[1][1] \in cell

\* Constraint.preProcess: a constraint on one variable removes the values
\* it rejects from that variable's domain and leaves the constraint list
RECURSIVE PreProcess(_, _, _)
PreProcess(doms, cons, cell) ==
    IF \A i \in 1..Len(cons) : Len(cons[i].vars) # 1
    THEN [domains |-> doms, constraints |-> cons]
    ELSE LET k == CHOOSE i \in 1..Len(cons) :
                     Len(cons[i].vars) = 1 /\ \A j \in 1..(i - 1) : Len(cons[j].vars) # 1
             c == cons[k]
             v == c.vars[1]
             kept == SelectSeq(doms[v], LAMBDA value : Func(c, <<value>>, cell))
             rest == SubSeq(cons, 1, k - 1) \o SubSeq(cons, k + 1, Len(cons))
         IN  PreProcess([doms EXCEPT ![v] = kept], rest, cell)

\* vconstraints[v]: the constraints that mention v, in the order added
VConstraints(cons, v) == SelectSeq(cons, LAMBDA c : InList(v, c.vars))

Assigned(assign) == {assign[i][1] : i \in 1..Len(assign)}

ValueOf(assign, v) == assign[CHOOSE i \in 1..Len(assign) : assign[i][1] = v][2]

\* The constraints of the variable just bound, one after the other
\* (FunctionConstraint.__call__ and forwardCheck): a constraint whose other
\* variable is bound is evaluated; otherwise the values of the other
\* variable that it rejects are hidden, and it fails when none is left.
RECURSIVE CheckFrom(_, _, _, _, _, _)
CheckFrom(i, vc, assign, doms, var, cell) ==
    IF i > Len(vc) THEN [ok |-> TRUE, doms |-> doms]
    ELSE LET c == vc[i]
             other == IF c.vars[1] = var THEN c.vars[2] ELSE c.vars[1]
             Args(x) == [k \in 1..2 |-> IF c.vars[k] = var
                                        THEN ValueOf(assign, var) ELSE x]
         IN  IF other \in Assigned(assign)
             THEN IF Func(c, Args(ValueOf(assign, other)), cell)
                  THEN CheckFrom(i + 1, vc, assign, doms, var, cell)
                  ELSE [ok |-> FALSE, doms |-> doms]
             ELSE LET shown == SelectSeq(doms[other],
                                         LAMBDA x : Func(c, Args(x), cell))
                      d2 == [doms EXCEPT ![other] = shown]
                  IN  IF shown = <<>> THEN [ok |-> FALSE, doms |-> d2]
                      ELSE CheckFrom(i + 1, vc, assign, d2, var, cell)

\* Domain.popState for the domains pushed when var was bound to val: the
\* values hidden at this level return at the end of their list
PopState(before, after, cons, var, val, cell) ==
    [u \in DOMAIN before |->
        IF Len(after[u]) < Len(before[u])
        THEN after[u] \o
             SelectSeq(before[u],
                LAMBDA x : \E i \in 1..Len(cons) :
                    /\ cons[i].vars \in {<<var, u>>, <<u, var>>}
                    /\ ~Func(cons[i], IF cons[i].vars[1] = var
                                      THEN <<val, x>> ELSE <<x, val>>, cell))
        ELSE after[u]]

\* the sort key of getSolutionIter: most constraints, then fewest values
\* left, then the variable itself
KeyLess(cons, doms, a, b) ==
    LET ca == Len(VConstraints(cons, a))
        cb == Len(VConstraints(cons, b))
    IN  \/ ca > cb
        \/ ca = cb /\ Len(doms[a]) < Len(doms[b])
        \/ ca = cb /\ Len(doms[a]) = Len(doms[b]) /\ a < b

RECURSIVE Search(_, _, _, _)
RECURSIVE TryValues(_, _, _, _, _, _)
\* the values of var are taken from the end of the list (values.pop())
TryValues(assign, doms, cons, cell, var, values) ==
    IF values = <<>> THEN [found |-> FALSE, items |-> <<>>, doms |-> doms]
    ELSE LET val == values[Len(values)]
             rest == SubSeq(values, 1, Len(values) - 1)
             bound == Append(assign, <<var, val>>)
             fc == CheckFrom(1, VConstraints(cons, var), bound, doms, var, cell)
         IN  IF fc.ok
             THEN LET sub == Search(bound, fc.doms, cons, cell)
                  IN  IF sub.found THEN sub
                      ELSE TryValues(assign,
                                     PopState(doms, sub.doms, cons, var, val, cell),
                                     cons, cell, var, rest)
             ELSE TryValues(assign, PopState(doms, fc.doms, cons, var, val, cell),
                            cons, cell, var, rest)

Search(assign, doms, cons, cell) ==
    LET unassigned == DOMAIN doms \ Assigned(assign)
    IN  IF unassigned = {}
        THEN [found |-> TRUE, items |-> assign, doms |-> doms]
        ELSE LET var == CHOOSE v \in unassigned :
                           \A u \in unassigned \ {v} : KeyLess(cons, doms, v, u)
             IN  TryValues(assign, doms, cons, cell, var, doms[var])

\* the three outcomes of optimize(): None, a dict (its items in insertion
\* order), or an exception
None == [kind |-> "none", items |-> <<>>]
Raised == [kind |-> "raised", items |-> <<>>]

getSolution(p) ==
    LET pre == PreProcess(p.variables, p.constraints, p.cell)
    IN  IF DOMAIN pre.domains = {} THEN None
        ELSE IF \E v \in DOMAIN pre.domains : pre.domains[v] = <<>> THEN None
        ELSE LET r == Search(<<>>, pre.domains, pre.constraints, p.cell)
             IN  IF r.found THEN [kind |-> "dict", items |-> r.items] ELSE None

\* the store optimize() leaves behind, starting from the store p
BuildModel(p, courses) ==
    add_day_constraints(
        add_duration_constraints(
            add_time_constraints(setup_variables(p, courses), courses),
            courses),
        courses)

optimize(p, courses) ==
    LET built == BuildModel(p, courses)
    IN  IF built.raised THEN Raised ELSE getSolution(built)

(***************************************************************************)
(* app.py: the /optimize handler, one action per step that another request *)
(* can interleave with.                                                    *)
(***************************************************************************)
Requests == {1, 2}

\* the selections a sequential request draws, and those two concurrent
\* requests draw
Selections == {ids \in SUBSET CourseIds : Cardinality(ids) <= MaxSelected}
WebSelections == SUBSET {1, 5}

NoResponse == [status |-> "pending", schedule |-> <<>>]
Failure == [status |-> "failure", schedule |-> <<>>]
Error500 == [status |-> "error", schedule |-> <<>>]

\* next(c for c in selected_courses if c['id'] == course_id) finds a record
Found(selected, course_id) == \E i \in 1..Len(selected) : selected[i].id = course_id

course_info(selected, course_id) ==
    selected[CHOOSE i \in 1..Len(selected) :
                /\ selected[i].id = course_id
                /\ \A j \in 1..(i - 1) : selected[j].id # course_id]

\* variant: the handler has no failure branch and formats whatever it got
FormatResponseNoFailure(sol, selected) ==
    IF sol.kind = "raised" THEN Error500
    ELSE IF \E i \in 1..Len(sol.items) : ~Found(selected, sol.items[i][1])
    THEN Error500
    ELSE [status |-> "success",
          schedule |->
            [i \in 1..Len(sol.items) |->
               LET info == course_info(selected, sol.items[i][1])
               IN  [course_dept |-> info.course_dept,
                    course_code |-> info.course_code,
                    course_title |-> info.course_title,
                    day |-> sol.items[i][2][1],
                    time |-> sol.items[i][2][2]]]]

\* lines 31-45 of the handler: the answer for a solution; an exception
\* that leaves the handler (from optimize, or StopIteration from next)
\* is answered as an error
FormatResponse(sol, selected) ==
    IF sol.kind = "raised" THEN Error500
    ELSE IF sol.kind = "dict" /\ sol.items # <<>>
    THEN IF \E i \in 1..Len(sol.items) : ~Found(selected, sol.items[i][1])
         THEN Error500
         ELSE [status |-> "success",
               schedule |->
                 [i \in 1..Len(sol.items) |->
                    LET info == course_info(selected, sol.items[i][1])
                    IN  [course_dept |-> info.course_dept,
                         course_code |-> info.course_code,
                         course_title |-> info.course_title,
                         day |-> sol.items[i][2][1],
                         time |-> sol.items[i][2][2]]]]
    ELSE Failure

InitRequests ==
    /\ pc = [r \in Requests |-> "idle"]
    /\ selected_courses = [r \in Requests |-> <<>>]
    /\ file = <<>>
    /\ self_courses = [r \in Requests |-> <<>>]
    /\ problem = [r \in Requests |-> NoProblem]
    /\ solution = [r \in Requests |-> None]
    /\ response = [r \in Requests |-> NoResponse]

Init ==
    /\ InitRequests
    /\ day_token = <<>>
    /\ decoded_days = {}
    /\ decoded = FALSE

\* lines 18-21: the request arrives and the catalog is filtered
Request(r, ids) ==
    /\ pc[r] = "idle"
    /\ selected_courses' = [selected_courses EXCEPT ![r] =
                               SelectSeq(all_courses, LAMBDA c : c.id \in ids)]
    /\ pc' = [pc EXCEPT ![r] = "write"]
    /\ UNCHANGED <<file, self_courses, problem, solution, response,
                   day_token, decoded_days, decoded>>

\* lines 24-25: the selection is written to selected_courses.json (the
\* records hold lists, strings and integers only, which json.dump and
\* json.load give back unchanged; open and dump are taken as one step)
WriteFile(r) ==
    /\ pc[r] = "write"
    /\ file' = selected_courses[r]
    /\ pc' = [pc EXCEPT ![r] = "construct"]
    /\ UNCHANGED <<selected_courses, self_courses, problem, solution, response,
                   day_token, decoded_days, decoded>>

\* line 28: ScheduleOptimizer('selected_courses.json')
Construct(r) ==
    /\ pc[r] = "construct"
    /\ problem' = [problem EXCEPT ![r] = Problem]
    /\ self_courses' = [self_courses EXCEPT ![r] = _load_data(file)]
    /\ pc' = [pc EXCEPT ![r] = "optimize"]
    /\ UNCHANGED <<selected_courses, file, solution, response,
                   day_token, decoded_days, decoded>>

\* line 29: optimizer.optimize()
Optimize(r) ==
    /\ pc[r] = "optimize"
    /\ problem' = [problem EXCEPT ![r] = BuildModel(problem[r], self_courses[r])]
    /\ solution' = [solution EXCEPT ![r] = optimize(problem[r], self_courses[r])]
    /\ pc' = [pc EXCEPT ![r] = "format"]
    /\ UNCHANGED <<selected_courses, file, self_courses, response,
                   day_token, decoded_days, decoded>>

\* lines 31-45: the answer
Respond(r) ==
    /\ pc[r] = "format"
    /\ response' = [response EXCEPT ![r] =
                       FormatResponse(solution[r], selected_courses[r])]
    /\ pc' = [pc EXCEPT ![r] = "done"]
    /\ UNCHANGED <<selected_courses, file, self_courses, problem, solution,
                   day_token, decoded_days, decoded>>

\* the handler has returned: its locals are gone, the file stays
Return(r) ==
    /\ pc[r] = "done"
    /\ pc' = [pc EXCEPT ![r] = "idle"]
    /\ selected_courses' = [selected_courses EXCEPT ![r] = <<>>]
    /\ self_courses' = [self_courses EXCEPT ![r] = <<>>]
    /\ problem' = [problem EXCEPT ![r] = NoProblem]
    /\ solution' = [solution EXCEPT ![r] = None]
    /\ response' = [response EXCEPT ![r] = NoResponse]
    /\ UNCHANGED <<file, day_token, decoded_days, decoded>>

\* one request at a time
Next ==
    \/ \E ids \in Selections : Request(1, ids)
    \/ WriteFile(1)
    \/ Construct(1)
    \/ Optimize(1)
    \/ Respond(1)
    \/ Return(1)

Spec == Init /\ [][Next]_vars

\* two requests, served by two threads
NextWeb ==
    \E r \in Requests :
        \/ \E ids \in WebSelections : Request(r, ids)
        \/ WriteFile(r)
        \/ Construct(r)
        \/ Optimize(r)
        \/ Respond(r)
        \/ Return(r)

SpecWeb == Init /\ [][NextWeb]_vars

(***************************************************************************)
(* The day decoding on its own: a token is drawn, then decoded.            *)
(***************************************************************************)
\* the day codes a token is written with ("R" names no day for the source)
DayCodes == {<<"M">>, <<"T">>, <<"W">>, <<"T", "H">>, <<"F">>, <<"R">>}

RECURSIVE Concat(_)
Concat(parts) == IF parts = <<>> THEN <<>> ELSE parts[1] \o Concat(Tail(parts))

\* the tokens of at most MaxTokenLen day codes
Tokens == {Concat(parts) : parts \in UNION {[1..n -> DayCodes] : n \in 1..MaxTokenLen}}

InitDecode ==
    /\ InitRequests
    /\ day_token \in Tokens
    /\ decoded_days = {}
    /\ decoded = FALSE

Decode ==
    /\ ~decoded
    /\ decoded_days' = DecodeToken(day_token)
    /\ decoded' = TRUE
    /\ UNCHANGED <<pc, selected_courses, file, self_courses, problem, solution,
                   response, day_token>>

SpecDecode == InitDecode /\ [][Decode]_vars

(***************************************************************************)
(* Properties.                                                             *)
(***************************************************************************)
\* optimize() has returned to request r
Solved(r) == pc[r] \in {"format", "done"}

\* the record of a course id among the courses an optimizer loaded
CourseOf(cs, id) == cs[CHOOSE i \in 1..Len(cs) : cs[i].id = id]

\* the day set a course's own tokens derive (none for TBA meeting days)
OwnDays(course) ==
    IF InList(TBA, course.meeting_days) THEN {} ELSE DecodeDays(course.meeting_days)

\* the windows a course's own entries parse to
OwnWindows(course) ==
    {w \in {_parse_time(course.meeting_times[i]) : i \in 1..Len(course.meeting_times)} :
        w.kind = "window"}

HasTBATime(course) == InList(TBA, course.meeting_times)

\* C1 (no collision): in every assignment optimize returns, two distinct
\* courses never hold the same (day, slot) pair: they differ in the day or
\* in the slot.
NoCollision ==
    \A r \in Requests :
        solution[r].kind = "dict" =>
            \A i, j \in 1..Len(solution[r].items) :
                i # j =>
                    \/ solution[r].items[i][2][1] # solution[r].items[j][2][1]
                    \/ solution[r].items[i][2][2] # solution[r].items[j][2][2]

\* an assignment of two courses bound on the same day
NoCollisionWitness ==
    \E r \in Requests :
        /\ solution[r].kind = "dict"
        /\ Len(solution[r].items) >= 2
        /\ solution[r].items[1][2][1] = solution[r].items[2][2][1]

\* C2 (day membership): in every assignment optimize returns, a course
\* whose own tokens derive a non-empty day set is bound to a day of that
\* set, whatever the other courses declare.
DayMembership ==
    \A r \in Requests :
        solution[r].kind = "dict" =>
            \A i \in 1..Len(solution[r].items) :
                LET own == OwnDays(CourseOf(self_courses[r], solution[r].items[i][1]))
                IN  own # {} => solution[r].items[i][2][1] \in own

\* C3 (window membership): in every assignment optimize returns, the slot
\* of a course lies, as a clock time, inside every window its entries parse
\* to, both ends included.
WindowMembership ==
    \A r \in Requests :
        solution[r].kind = "dict" =>
            \A i \in 1..Len(solution[r].items) :
                \A w \in OwnWindows(CourseOf(self_courses[r], solution[r].items[i][1])) :
                    /\ Strptime24(w.start) <= Strptime24(solution[r].items[i][2][2])
                    /\ Strptime24(solution[r].items[i][2][2]) <= Strptime24(w.end)

\* a bound course with two parsed windows, and a bound course whose window
\* lies in the afternoon
WindowMembershipWitness ==
    \E r \in Requests :
        /\ solution[r].kind = "dict"
        /\ \E i \in 1..Len(solution[r].items) :
              Cardinality(OwnWindows(CourseOf(self_courses[r],
                                              solution[r].items[i][1]))) = 2
        /\ \E i \in 1..Len(solution[r].items) :
              \E w \in OwnWindows(CourseOf(self_courses[r], solution[r].items[i][1])) :
                  Strptime24(w.start) >= 720

\* the (day, slot) pairs a course's own day set and windows admit
OwnValues(course) ==
    {v \in {FullDomain[k] : k \in 1..Len(FullDomain)} :
        /\ OwnDays(course) # {} => v[1] \in OwnDays(course)
        /\ \A w \in OwnWindows(course) :
              /\ Strptime24(w.start) <= Strptime24(v[2])
              /\ Strptime24(v[2]) <= Strptime24(w.end)}

\* some assignment gives every course one of its own values, all distinct
\* (Hall's condition for distinct representatives)
Feasible(cs) ==
    \A S \in SUBSET (1..Len(cs)) :
        Cardinality(UNION {OwnValues(cs[i]) : i \in S}) >= Cardinality(S)

\* C4 (feasibility outcome): for a non-empty list of eligible courses,
\* optimize returns an assignment that binds every course exactly when some
\* assignment satisfies each course's own windows, each course's own day
\* set and pairwise distinctness, and 'no solution' otherwise.
FeasibilityOutcome ==
    \A r \in Requests :
        (Solved(r) /\ solution[r].kind # "raised" /\ self_courses[r] # <<>>) =>
            /\ solution[r].kind = "dict" <=> Feasible(self_courses[r])
            /\ solution[r].kind = "dict" =>
                  {solution[r].items[i][1] : i \in 1..Len(solution[r].items)}
                     = {self_courses[r][i].id : i \in 1..Len(self_courses[r])}

\* C5 (TBA exclusion): a selected course with a "TBA" meeting-time entry
\* has no variable in the store, is in the scope of no constraint, is no
\* key of the solution and has no record in the formatted schedule.
TBAExclusion ==
    \A r \in Requests :
        \A k \in 1..Len(selected_courses[r]) :
            LET c == selected_courses[r][k]
            IN  (Solved(r) /\ HasTBATime(c)) =>
                    /\ c.id \notin DOMAIN problem[r].variables
                    /\ \A i \in 1..Len(problem[r].constraints) :
                          ~InList(c.id, problem[r].constraints[i].vars)
                    /\ \A i \in 1..Len(solution[r].items) :
                          solution[r].items[i][1] # c.id
                    /\ \A i \in 1..Len(response[r].schedule) :
                          response[r].schedule[i].course_code # c.course_code

\* a request answered with a schedule whose selection held a course with
\* "TBA" next to a real time range
TBAExclusionWitness ==
    \E r \in Requests :
        /\ pc[r] = "done"
        /\ response[r].status = "success"
        /\ \E k \in 1..Len(selected_courses[r]) :
              /\ HasTBATime(selected_courses[r][k])
              /\ Len(selected_courses[r][k].meeting_times) = 2

\* a "T" of the token that is not followed by an "H"
LoneT(token) ==
    \E i \in 1..Len(token) :
        token[i] = "T" /\ ~(i < Len(token) /\ token[i + 1] = "H")

\* C6 (day-code decoding): the decoded set holds Monday iff the token has
\* an "M", Wednesday iff a "W", Friday iff an "F", Thursday iff "TH", and
\* Tuesday iff a "T" outside a "TH" pair; so "TTH" gives Tuesday, Thursday.
DayCodeDecoding ==
    decoded =>
        /\ "Monday" \in decoded_days <=> Contains(day_token, <<"M">>)
        /\ "Wednesday" \in decoded_days <=> Contains(day_token, <<"W">>)
        /\ "Friday" \in decoded_days <=> Contains(day_token, <<"F">>)
        /\ "Thursday" \in decoded_days <=> Contains(day_token, <<"T", "H">>)
        /\ "Tuesday" \in decoded_days <=> LoneT(day_token)

\* what request r answers when no other request runs
AloneResponse(r) ==
    FormatResponse(optimize(Problem, _load_data(selected_courses[r])),
                   selected_courses[r])

\* C7 (independence of invocations): with two requests interleaved, the
\* assignment a request formats holds only ids of its own selection, and
\* its answer is the one it would give alone.
Independence ==
    \A r \in Requests :
        /\ pc[r] = "format" =>
              \A i \in 1..Len(solution[r].items) :
                  Found(selected_courses[r], solution[r].items[i][1])
        /\ pc[r] = "done" => response[r] = AloneResponse(r)

\* C8 (malformed time range is non-fatal): whatever malformed entries the
\* loaded courses hold, optimize raises nothing and runs to a result.
MalformedNonFatal ==
    \A r \in Requests : Solved(r) => solution[r].kind # "raised"

ZeroEligibleIsFailure ==
    \A r \in Requests :
        (pc[r] = "done"
           /\ \A k \in 1..Len(selected_courses[r]) : HasTBATime(selected_courses[r][k]))
        => response[r] = Failure

\* an answered request whose selection holds TBA courses only
ZeroEligibleWitness ==
    \E r \in Requests :
        /\ pc[r] = "done"
        /\ selected_courses[r] # <<>>
        /\ \A k \in 1..Len(selected_courses[r]) : HasTBATime(selected_courses[r][k])
        /\ response[r] = Failure

====
